---- MODULE Spec2Model ----
(***************************************************************************)
(* A model of repo-analysis (src/src/index.ts): processCommits,           *)
(* processData (rename extraction and the repeat-until-unchanged          *)
(* relocation loop), analyzeSimilarities and analyzeTopContributors.      *)
(*                                                                         *)
(* A path is a sequence of tokens: file-name atoms and the punctuation    *)
(* "{", "}", "=>" (the text " => ") and "/".  A JavaScript object used as *)
(* a map is a sequence of records in property order (insertion order for  *)
(* keys that are not array indices).                                      *)
(***************************************************************************)
EXTENDS Integers, Sequences, FiniteSets, Bags, TLC

VARIABLES
    pc,            \* position in the function under analysis
    commits,       \* commits.all, as handed over by the log provider
    fileData,      \* the FileData object: <<[key, entries]>> in property order
    authors,       \* the authors array built by processCommits
    renames,       \* processData: the renames array
    pending,       \* processData: keys the first for-in loop has still to visit
    idx,           \* processData: position of the for-of loop in renames
    modified,      \* processData: the modified flag of the current pass
    pass,          \* history: number of the current pass (saturates at MaxPass)
    relocs,        \* history: [edge, pass] of every relocation of the while loop
    skips,         \* history: [edge, pass] of every skipped edge of the while loop
    moved,         \* history: keys emptied by the extraction loop, in order
    passStart,     \* history: fileData as the current pass found it
    threshold,     \* analyzeSimilarities: the threshold, a fraction [num, den]
    developerData, \* analyzeSimilarities: developer -> <<[file, weight]>>
    ai,            \* analyzeSimilarities: position of the outer loop in authors
    bi,            \* analyzeSimilarities: position of the inner loop in authors
    output,        \* analyzeSimilarities: the similarity lines printed so far
    computed,      \* history: [a, b, similar, both] of every similarity computed
    limit,         \* analyzeTopContributors: the limit
    authorChanges, \* analyzeTopContributors: own properties, in insertion order
    sortedAuthors, \* analyzeTopContributors: the sorted keys of authorChanges
    ranking        \* analyzeTopContributors: the contributor lines printed so far

dataVars == <<renames, pending, idx, modified, pass, relocs, skips, moved, passStart>>

simVars == <<threshold, developerData, ai, bi, output, computed>>

topVars == <<limit, authorChanges, sortedAuthors, ranking>>

vars == <<pc, commits, fileData, authors, dataVars, simVars, topVars>>

-----------------------------------------------------------------------------
(* Bounds of the model *)

MaxCommits == 3

MaxPass == 3

-----------------------------------------------------------------------------
(* Small helpers *)

Min(a, b) == IF a <= b THEN a ELSE b

Range(s) == {s[i] : i \in 1..Len(s)}

SeqsUpTo(S, n) == UNION {[1..k -> S] : k \in 0..n}

RECURSIVE Reverse(_)
Reverse(s) == IF s = <<>> THEN <<>> ELSE Append(Reverse(Tail(s)), Head(s))

RECURSIVE Flatten(_)
Flatten(ss) == IF ss = <<>> THEN <<>> ELSE Head(ss) \o Flatten(Tail(ss))

-----------------------------------------------------------------------------
(* Paths and the two rename patterns of processData *)

ARROW == "=>"

\* path components are ordinary names: a path that names a member of
\* Object.prototype makes fileData[path].push (index.ts line 121) or
\* .concat (lines 152, 186) throw before fileData changes, so such a run
\* has no result to speak of
Names == {"a", "b", "c"}

PlainKey(p) == <<p>>

WholeKey(p, q) == <<p, ARROW, q>>

BraceKey(p, q) == <<"{", p, ARROW, q, "}">>

\* a file of directory a moved into its subdirectory b, as git prints it:
\* a/{ => b}/c
DirKey == <<"a", "/", "{", ARROW, "b", "}", "/", "c">>

BracePairs == {<<"a", "b">>, <<"b", "c">>}

\* the paths of the model: every plain name, every whole-path rename between
\* two names (a name to itself included), and three renames in brace form
KeyUniverse ==
    {PlainKey(p) : p \in Names}
        \cup {WholeKey(p, q) : p \in Names, q \in Names}
        \cup {BraceKey(pq[1], pq[2]) : pq \in BracePairs}
        \cup {DirKey}

\* least j >= i with s[j] = tok, 0 when there is none
IndexFrom(s, tok, i) ==
    LET hits == {j \in i..Len(s) : s[j] = tok}
    IN  IF hits = {} THEN 0 ELSE CHOOSE j \in hits : \A k \in hits : j <= k

\* the leftmost match of /{(.*?) => (.*?)}/ that starts at or after i:
\* an opening brace, the first arrow after it, the first closing brace after
\* that arrow; start = 0 when nothing matches
Regex1Match(s, i) ==
    LET starts == {p \in i..Len(s) :
                      /\ s[p] = "{"
                      /\ IndexFrom(s, ARROW, p + 1) # 0
                      /\ IndexFrom(s, "}", IndexFrom(s, ARROW, p + 1) + 1) # 0}
    IN  IF starts = {} THEN [start |-> 0, arrow |-> 0, close |-> 0]
        ELSE LET p == CHOOSE x \in starts : \A y \in starts : x <= y
                 q == IndexFrom(s, ARROW, p + 1)
             IN  [start |-> p, arrow |-> q, close |-> IndexFrom(s, "}", q + 1)]

\* file.replace(regex1, "$1") (group = 1) or "$2" (group = 2), every match
RECURSIVE Regex1Replace(_, _, _)
Regex1Replace(s, group, i) ==
    LET m == Regex1Match(s, i)
    IN  IF m.start = 0 THEN SubSeq(s, i, Len(s))
        ELSE SubSeq(s, i, m.start - 1)
                 \o (IF group = 1 THEN SubSeq(s, m.start + 1, m.arrow - 1)
                                  ELSE SubSeq(s, m.arrow + 1, m.close - 1))
                 \o Regex1Replace(s, group, m.close + 1)

\* .replace(/\/\//g, "/")
RECURSIVE CollapseSlashes(_)
CollapseSlashes(s) ==
    IF Len(s) < 2 THEN s
    ELSE IF s[1] = "/" /\ s[2] = "/"
         THEN <<"/">> \o CollapseSlashes(SubSeq(s, 3, Len(s)))
         ELSE <<s[1]>> \o CollapseSlashes(Tail(s))

MatchesRegex1(file) == Regex1Match(file, 1).start # 0

\* /^(.*?) => (.*?)$/ matches when the path holds an arrow; group 1 is the
\* text before the first arrow, group 2 the text after it
MatchesRegex2(file) == IndexFrom(file, ARROW, 1) # 0

RenameFrom(file) ==
    IF MatchesRegex1(file) THEN CollapseSlashes(Regex1Replace(file, 1, 1))
    ELSE SubSeq(file, 1, IndexFrom(file, ARROW, 1) - 1)

RenameTo(file) ==
    IF MatchesRegex1(file) THEN CollapseSlashes(Regex1Replace(file, 2, 1))
    ELSE SubSeq(file, IndexFrom(file, ARROW, 1) + 1, Len(file))

IsRename(file) == MatchesRegex1(file) \/ MatchesRegex2(file)

-----------------------------------------------------------------------------
(* The FileData object *)

Keys(t) == [i \in 1..Len(t) |-> t[i].key]

HasKey(t, k) == \E i \in 1..Len(t) : t[i].key = k

Entries(t, k) == t[CHOOSE i \in 1..Len(t) : t[i].key = k].entries

\* t[k] = v: an existing property keeps its place, a new one goes last
Put(t, k, v) ==
    IF HasKey(t, k)
    THEN [i \in 1..Len(t) |-> IF t[i].key = k THEN [key |-> k, entries |-> v] ELSE t[i]]
    ELSE Append(t, [key |-> k, entries |-> v])

\* delete t[k]
Remove(t, k) == SelectSeq(t, LAMBDA r : r.key # k)

\* !t[k] || t[k].length == 0
EmptyOrAbsent(t, k) == ~HasKey(t, k) \/ Entries(t, k) = <<>>

AllEntries(t) == Flatten([i \in 1..Len(t) |-> t[i].entries])

-----------------------------------------------------------------------------
(* processCommits *)

\* commit.diff is undefined for a commit without statistics
NoDiff == [defined |-> FALSE, files |-> <<>>]

RECURSIVE PushFiles(_, _, _, _)
PushFiles(t, commit, date, files) ==
    IF files = <<>> THEN t
    ELSE LET fileDiff == Head(files)
             t0 == IF HasKey(t, fileDiff.file) THEN t ELSE Put(t, fileDiff.file, <<>>)
             t1 == Put(t0, fileDiff.file,
                       Append(Entries(t0, fileDiff.file),
                              [author |-> commit.author_name, date |-> date,
                               diff |-> fileDiff]))
         IN  PushFiles(IF fileDiff.binary THEN t ELSE t1, commit, date, Tail(files))

\* fileData after the commits all[1..n]; a commit's position stands for its date
RECURSIVE ProcessCommitsFileData(_, _)
ProcessCommitsFileData(all, n) ==
    IF n = 0 THEN <<>>
    ELSE LET t == ProcessCommitsFileData(all, n - 1)
         IN  IF ~all[n].diff.defined THEN t
             ELSE PushFiles(t, all[n], n, all[n].diff.files)

RECURSIVE PushAuthors(_, _, _)
PushAuthors(as, commit, files) ==
    IF files = <<>> THEN as
    ELSE PushAuthors(IF Head(files).binary \/ commit.author_name \in Range(as)
                     THEN as ELSE Append(as, commit.author_name),
                     commit, Tail(files))

RECURSIVE ProcessCommitsAuthors(_, _)
ProcessCommitsAuthors(all, n) ==
    IF n = 0 THEN <<>>
    ELSE LET as == ProcessCommitsAuthors(all, n - 1)
         IN  IF ~all[n].diff.defined THEN as
             ELSE PushAuthors(as, all[n], all[n].diff.files)

TextDiff(file, ins, del) ==
    [file |-> file, binary |-> FALSE, insertions |-> ins, deletions |-> del,
     changes |-> ins + del]

Commit(author, files) ==
    [author_name |-> author, diff |-> [defined |-> TRUE, files |-> files]]

-----------------------------------------------------------------------------
(* processData *)

\* fileData[rename.to] = fileData[rename.to].concat(fileData[rename.from].splice(0)):
\* the receiver array is looked up first, splice(0) then empties the source
\* array in place and returns what it held, and concat reads the receiver
\* when it is called, after the splice
RelocateKeepsSource(t, rename) ==
    Put(t, rename.to, Entries(t, rename.to) \o Entries(t, rename.from))

Relocate(t, rename) ==
    LET removed == Entries(t, rename.from)
        spliced == Put(t, rename.from, <<>>)
    IN  Put(spliced, rename.to, Entries(spliced, rename.to) \o removed)

SkipRenameIgnoresTarget(t, rename) == EmptyOrAbsent(t, rename.from)

SkipRename(t, rename) == EmptyOrAbsent(t, rename.from) \/ EmptyOrAbsent(t, rename.to)

\* if (!fileData[to]) fileData[to] = [];
\* fileData[to] = fileData[to].concat(fileData[file]); delete fileData[file];
ExtractKey(t, file) ==
    LET to == RenameTo(file)
        t0 == IF HasKey(t, to) THEN t ELSE Put(t, to, <<>>)
    IN  Remove(Put(t0, to, Entries(t0, to) \o Entries(t, file)), file)

\* for (const file in fileData) { if (file.length == 0) delete }
RemoveEmpty(t) == SelectSeq(t, LAMBDA r : r.entries # <<>>)

\* one iteration of the first for-in loop
ExtractStep ==
    /\ pc = "extract"
    /\ pending # <<>>
    /\ LET file == Head(pending)
       IN  IF HasKey(fileData, file) /\ IsRename(file)
           THEN /\ renames' = Append(renames, [from |-> RenameFrom(file), to |-> RenameTo(file)])
                /\ fileData' = ExtractKey(fileData, file)
                /\ moved' = Append(moved, file)
           ELSE UNCHANGED <<renames, fileData, moved>>
    /\ pending' = Tail(pending)
    /\ UNCHANGED <<pc, commits, authors, idx, modified, pass, relocs, skips, passStart, simVars, topVars>>

\* the for-in loop ends; renames.reverse(); the while loop starts its first pass
ExtractEnd ==
    /\ pc = "extract"
    /\ pending = <<>>
    /\ renames' = Reverse(renames)
    /\ pc' = "resolve"
    /\ idx' = 1
    /\ modified' = FALSE
    /\ pass' = 1
    /\ passStart' = fileData
    /\ UNCHANGED <<commits, fileData, authors, pending, relocs, skips, moved, simVars, topVars>>

\* one iteration of for (const rename of renames)
ResolveStep ==
    /\ pc = "resolve"
    /\ idx <= Len(renames)
    /\ IF SkipRename(fileData, renames[idx])
       THEN /\ skips' = skips \cup {[edge |-> idx, pass |-> pass]}
            /\ UNCHANGED <<fileData, modified, relocs>>
       ELSE /\ fileData' = Relocate(fileData, renames[idx])
            /\ modified' = TRUE
            /\ relocs' = relocs \cup {[edge |-> idx, pass |-> pass]}
            /\ UNCHANGED skips
    /\ idx' = idx + 1
    /\ UNCHANGED <<pc, commits, authors, renames, pending, pass, moved, passStart, simVars, topVars>>

\* the pass moved something: while (true) goes round again
ResolveNextPass ==
    /\ pc = "resolve"
    /\ idx > Len(renames)
    /\ modified
    /\ modified' = FALSE
    /\ idx' = 1
    /\ pass' = Min(pass + 1, MaxPass)
    /\ passStart' = fileData
    /\ UNCHANGED <<pc, commits, fileData, authors, renames, pending, relocs, skips, moved, simVars, topVars>>

\* if (!modified) break; then the last for-in loop drops the empty lists
ResolveBreak ==
    /\ pc = "resolve"
    /\ idx > Len(renames)
    /\ ~modified
    /\ fileData' = RemoveEmpty(fileData)
    /\ pc' = "done"
    /\ UNCHANGED <<commits, authors, renames, pending, idx, modified, pass, relocs, skips,
                   moved, passStart, simVars, topVars>>

-----------------------------------------------------------------------------
(* The specification of processData: every log of at most MaxCommits       *)
(* commits, each touching one text file whose path is plain or a rename   *)

RenameCommits == {Commit("dev", <<TextDiff(k, 1, 0)>>) : k \in KeyUniverse}

Init ==
    /\ commits \in SeqsUpTo(RenameCommits, MaxCommits)
    /\ fileData = ProcessCommitsFileData(commits, Len(commits))
    /\ authors = ProcessCommitsAuthors(commits, Len(commits))
    /\ pc = "extract"
    /\ pending = Keys(fileData)
    /\ renames = <<>>
    /\ idx = 0
    /\ modified = FALSE
    /\ pass = 0
    /\ relocs = {}
    /\ skips = {}
    /\ moved = <<>>
    /\ passStart = <<>>
    /\ threshold = [num |-> 0, den |-> 1]
    /\ developerData = <<>>
    /\ ai = 0
    /\ bi = 0
    /\ output = <<>>
    /\ computed = <<>>
    /\ limit = 0
    /\ authorChanges = <<>>
    /\ sortedAuthors = <<>>
    /\ ranking = <<>>

Next == ExtractStep \/ ExtractEnd \/ ResolveStep \/ ResolveNextPass \/ ResolveBreak

Spec == Init /\ [][Next]_vars

-----------------------------------------------------------------------------
(* analyzeSimilarities *)

\* if (bothWeightSum < 100) continue
MinActivity == 100

\* the developers of the model, and the order a >= b puts their names in
\* (UTF-16 code units: digits before lower-case letters)
NameRank ==
    [x \in {"7", "ann", "bob", "constructor", "cy"} |->
        CASE x = "7" -> 1 [] x = "ann" -> 2 [] x = "bob" -> 3
          [] x = "constructor" -> 4 [] x = "cy" -> 5]

\* a >= b on strings
StrGeq(a, b) == NameRank[a] >= NameRank[b]

HasCell(o, file) == \E i \in 1..Len(o) : o[i].file = file

WeightOf(o, file) == o[CHOOSE i \in 1..Len(o) : o[i].file = file].weight

\* o[file] = w
SetWeight(o, file, w) ==
    IF HasCell(o, file)
    THEN [i \in 1..Len(o) |-> IF o[i].file = file THEN [file |-> file, weight |-> w] ELSE o[i]]
    ELSE Append(o, [file |-> file, weight |-> w])

AddCommitWeightNoZeroSkip(o, file, commitWeight) ==
    LET o0 == IF ~HasCell(o, file) \/ WeightOf(o, file) = 0 THEN SetWeight(o, file, 0) ELSE o
    IN  SetWeight(o0, file, WeightOf(o0, file) + commitWeight)

\* if (commitWeight == 0) continue;
\* if (!developerData[author][file]) developerData[author][file] = 0;
\* developerData[author][file] += commitWeight;
AddCommitWeight(o, file, commitWeight) ==
    IF commitWeight = 0 THEN o
    ELSE LET o0 == IF ~HasCell(o, file) \/ WeightOf(o, file) = 0
                   THEN SetWeight(o, file, 0) ELSE o
         IN  SetWeight(o0, file, WeightOf(o0, file) + commitWeight)

RECURSIVE AggregateCommits(_, _, _)
AggregateCommits(dd, file, commitData) ==
    IF commitData = <<>> THEN dd
    ELSE LET commit == Head(commitData)
         IN  AggregateCommits(
                 [dd EXCEPT ![commit.author] = AddCommitWeight(@, file, commit.diff.changes)],
                 file, Tail(commitData))

RECURSIVE AggregateFiles(_, _)
AggregateFiles(dd, t) ==
    IF t = <<>> THEN dd
    ELSE AggregateFiles(AggregateCommits(dd, Head(t).key, Head(t).entries), Tail(t))

\* developerData after the two loops that build it
Aggregate(t, as) == AggregateFiles([d \in Range(as) |-> <<>>], t)

\* Object.values(developerData[a]).reduce((a, c) => a + c, 0)
RECURSIVE WeightSum(_)
WeightSum(o) == IF o = <<>> THEN 0 ELSE Head(o).weight + WeightSum(Tail(o))

RECURSIVE SimilarWeightLoopOneSided(_, _)
SimilarWeightLoopOneSided(cells, ob) ==
    IF cells = <<>> THEN 0
    ELSE LET aWeight == Head(cells).weight
             bWeight == IF HasCell(ob, Head(cells).file) THEN WeightOf(ob, Head(cells).file) ELSE 0
         IN  (IF bWeight = 0 THEN 0 ELSE aWeight) + SimilarWeightLoopOneSided(Tail(cells), ob)

\* the loop over the files of developerData[a]: cells is what is left of them
RECURSIVE SimilarWeightLoop(_, _)
SimilarWeightLoop(cells, ob) ==
    IF cells = <<>> THEN 0
    ELSE LET aWeight == Head(cells).weight
             bWeight == IF HasCell(ob, Head(cells).file) THEN WeightOf(ob, Head(cells).file) ELSE 0
         IN  (IF bWeight = 0 THEN 0 ELSE aWeight + bWeight) + SimilarWeightLoop(Tail(cells), ob)

SimilarWeightSum(dd, a, b) == SimilarWeightLoop(dd[a], dd[b])

SkipsInactiveBelowZero(bothWeightSum) == bothWeightSum < 0

\* if (bothWeightSum < 100) continue
SkipsInactive(bothWeightSum) == bothWeightSum < MinActivity

AboveThresholdOrEqual(similar, both, t) == similar * t.den >= t.num * both

\* similarity > threshold, for similarity = similar / both and the threshold
\* t.num / t.den: two fractions of small terms that differ are rounded to
\* different doubles, so the comparison of the doubles is that of the fractions
AboveThreshold(similar, both, t) == similar * t.den > t.num * both

\* Math.floor(similarity * 100): the quotient and the product are rounded to
\* doubles, which leaves the exact floor, or one less when similar * 100 is a
\* multiple of both (0.29 * 100 is 28.999999999999996)
FloorPercent(similar, both) ==
    LET q == (similar * 100) \div both
    IN  IF (similar * 100) % both = 0 /\ 0 < similar /\ similar < both
        THEN {q - 1, q} ELSE {q}

\* developerData is built: lines 210-234
SimAggregate ==
    /\ pc = "aggregate"
    /\ developerData' = Aggregate(fileData, authors)
    /\ pc' = "pairs"
    /\ ai' = 1
    /\ bi' = 1
    /\ UNCHANGED <<commits, fileData, authors, dataVars, threshold, output, computed, topVars>>

\* one iteration of for (const b of authors) within for (const a of authors)
SimPair ==
    /\ pc = "pairs"
    /\ ai <= Len(authors)
    /\ LET a == authors[ai]
           b == authors[bi]
           bothWeightSum == WeightSum(developerData[a]) + WeightSum(developerData[b])
           similarWeightSum == SimilarWeightSum(developerData, a, b)
       IN  IF StrGeq(a, b) \/ SkipsInactive(bothWeightSum)
           THEN UNCHANGED <<output, computed>>
           ELSE /\ computed' = Append(computed, [a |-> a, b |-> b,
                                                 similar |-> similarWeightSum,
                                                 both |-> bothWeightSum])
                /\ IF AboveThreshold(similarWeightSum, bothWeightSum, threshold)
                   THEN \E percent \in FloorPercent(similarWeightSum, bothWeightSum) :
                            output' = Append(output, [a |-> a, b |-> b, percent |-> percent])
                   ELSE UNCHANGED output
    /\ IF bi < Len(authors)
       THEN bi' = bi + 1 /\ ai' = ai
       ELSE bi' = 1 /\ ai' = ai + 1
    /\ UNCHANGED <<pc, commits, fileData, authors, dataVars, threshold, developerData, topVars>>

\* both loops are through
SimEnd ==
    /\ pc = "pairs"
    /\ ai > Len(authors)
    /\ pc' = "done"
    /\ UNCHANGED <<commits, fileData, authors, dataVars, simVars, topVars>>

-----------------------------------------------------------------------------
(* The specification of analyzeSimilarities: every log of at most          *)
(* MaxCommits commits of three developers to two files that were never     *)
(* renamed (processData leaves such a table as it is), and three thresholds *)

\* developerData[developer] = {} (index.ts line 217) gives every author an
\* own property, whatever the name, so ordinary names stand for all
SimDevelopers == {"ann", "bob", "cy"}

SimFiles == {"a", "b"}

SimChanges == {0, 60}

Thresholds == {[num |-> 0, den |-> 1], [num |-> 3, den |-> 5], [num |-> 1, den |-> 1]}

SimCommits ==
    {Commit(d, <<TextDiff(PlainKey(f), n, 0)>>) :
        d \in SimDevelopers, f \in SimFiles, n \in SimChanges}

SimInit ==
    /\ commits \in SeqsUpTo(SimCommits, MaxCommits)
    /\ fileData = ProcessCommitsFileData(commits, Len(commits))
    /\ authors = ProcessCommitsAuthors(commits, Len(commits))
    /\ threshold \in Thresholds
    /\ pc = "aggregate"
    /\ developerData = <<>>
    /\ ai = 0
    /\ bi = 0
    /\ output = <<>>
    /\ computed = <<>>
    /\ renames = <<>>
    /\ pending = <<>>
    /\ idx = 0
    /\ modified = FALSE
    /\ pass = 0
    /\ relocs = {}
    /\ skips = {}
    /\ moved = <<>>
    /\ passStart = <<>>
    /\ limit = 0
    /\ authorChanges = <<>>
    /\ sortedAuthors = <<>>
    /\ ranking = <<>>

SimNext == SimAggregate \/ SimPair \/ SimEnd

SimSpec == SimInit /\ [][SimNext]_vars

-----------------------------------------------------------------------------
(* Properties of analyzeSimilarities *)

RECURSIVE SumOfSeq(_)
SumOfSeq(s) == IF s = <<>> THEN 0 ELSE Head(s) + SumOfSeq(Tail(s))

\* the files two developers both hold a non-zero weight for
SharedFiles(dd, a, b) ==
    {o.file : o \in {x \in Range(dd[a]) : x.weight # 0}}
        \cap {o.file : o \in {x \in Range(dd[b]) : x.weight # 0}}

RECURSIVE SumOverFiles(_, _, _)
SumOverFiles(dd, d, files) ==
    IF files = {} THEN 0
    ELSE LET f == CHOOSE x \in files : TRUE
         IN  WeightOf(dd[d], f) + SumOverFiles(dd, d, files \ {f})

TotalWeight(dd, d) == SumOverFiles(dd, d, {o.file : o \in Range(dd[d])})

SharedWeight(dd, a, b) ==
    SumOverFiles(dd, a, SharedFiles(dd, a, b)) + SumOverFiles(dd, b, SharedFiles(dd, a, b))

LinesOf(a, b) ==
    Cardinality({i \in 1..Len(output) : {output[i].a, output[i].b} = {a, b}})

\* C5: once analyzeSimilarities is through, two distinct developers of the
\* author list are reported exactly once when their combined weight is at
\* least 100 and shared weight / combined weight is strictly above the
\* threshold, and not at all otherwise; no line pairs a developer with
\* themselves.
C5_EmissionRule ==
    pc = "done" =>
        /\ \A a \in Range(authors), b \in Range(authors) :
              a # b =>
                LET both == TotalWeight(developerData, a) + TotalWeight(developerData, b)
                    shared == SharedWeight(developerData, a, b)
                IN  LinesOf(a, b) =
                        IF both >= 100 /\ shared * threshold.den > threshold.num * both
                        THEN 1 ELSE 0
        /\ \A i \in 1..Len(output) : output[i].a # output[i].b

\* a run over three developers, not listed in the order of their names, that
\* reports one pair and leaves out a pair whose similarity equals the threshold
C5_Witness ==
    /\ pc = "done"
    /\ Len(authors) = 3
    /\ NameRank[authors[1]] > NameRank[authors[2]]
    /\ Len(output) = 1
    /\ \E r \in Range(computed) : r.similar * threshold.den = threshold.num * r.both

\* C6: for the weight table the aggregation builds, the shared weight found
\* by going through a's files and looking up b's weight is the one found by
\* going through b's files and looking up a's weight.
C6_Symmetry ==
    pc \in {"pairs", "done"} =>
        \A a \in Range(authors), b \in Range(authors) :
            SimilarWeightSum(developerData, a, b) = SimilarWeightSum(developerData, b, a)

\* two developers who share a file and each hold a file the other does not,
\* listed against the order of their names
C6_Witness ==
    /\ pc = "done"
    /\ \E i \in 1..Len(authors), j \in 1..Len(authors) :
          /\ i < j
          /\ NameRank[authors[i]] > NameRank[authors[j]]
          /\ SimilarWeightSum(developerData, authors[i], authors[j]) > 0
          /\ Len(developerData[authors[i]]) = 2
          /\ Len(developerData[authors[j]]) = 1

\* C7: every similarity that is computed has a divisor of at least 100 and
\* a shared weight between 0 and the divisor, and every reported percentage
\* is an integer between 0 and 100.
C7_Range ==
    /\ \A r \in Range(computed) :
          /\ r.both >= 100
          /\ 0 <= r.similar
          /\ r.similar <= r.both
    /\ \A i \in 1..Len(output) : output[i].percent \in 0..100

C7_Witness ==
    /\ pc = "done"
    /\ \E r \in Range(computed) : 0 < r.similar /\ r.similar < r.both
    /\ \E i \in 1..Len(output) : output[i].percent \in 1..99

\* the sum of changes over the entries of developer d filed under key k
ChangesOf(t, d, k) ==
    IF ~HasKey(t, k) THEN 0
    ELSE SumOfSeq([i \in 1..Len(Entries(t, k)) |->
                      IF Entries(t, k)[i].author = d
                      THEN Entries(t, k)[i].diff.changes ELSE 0])

\* C8: after the aggregation loop the weight stored for (d, f) is the sum of
\* changes over d's entries under f, whatever the order of entries and
\* files; a developer has a cell for f only with a non-zero-change entry
\* under f, a cell holds a strictly positive weight, and f has one cell.
C8_Aggregation ==
    pc \in {"pairs", "done"} =>
        \A d \in Range(authors) :
            /\ \A f \in SimFiles :
                  /\ ChangesOf(fileData, d, PlainKey(f)) > 0
                        => /\ HasCell(developerData[d], PlainKey(f))
                           /\ WeightOf(developerData[d], PlainKey(f))
                                = ChangesOf(fileData, d, PlainKey(f))
                  /\ HasCell(developerData[d], PlainKey(f))
                        => \E e \in Range(Entries(fileData, PlainKey(f))) :
                              e.author = d /\ e.diff.changes # 0
            /\ \A i \in 1..Len(developerData[d]) :
                  /\ developerData[d][i].weight > 0
                  /\ developerData[d][i].file \in {PlainKey(f) : f \in SimFiles}
                  /\ \A j \in 1..Len(developerData[d]) :
                        developerData[d][i].file = developerData[d][j].file => i = j

\* a developer with two commits to one file, a zero-change commit to the
\* other, and a commit of somebody else in between
C8_Witness ==
    /\ pc = "pairs"
    /\ \E d \in Range(authors), f \in SimFiles, g \in SimFiles :
          /\ f # g
          /\ HasCell(developerData[d], PlainKey(f))
          /\ WeightOf(developerData[d], PlainKey(f)) = 120
          /\ ~HasCell(developerData[d], PlainKey(g))
          /\ HasKey(fileData, PlainKey(g))
          /\ \E e \in Range(Entries(fileData, PlainKey(g))) : e.author = d

-----------------------------------------------------------------------------
(* analyzeTopContributors *)

\* authorChanges is created as {}: a name it holds no own property for is
\* looked up in Object.prototype, whose members (functions, and the
\* prototype object itself) are all truthy
ObjectPrototypeKeys ==
    {"constructor", "toString", "toLocaleString", "valueOf", "hasOwnProperty",
     "isPrototypeOf", "propertyIsEnumerable", "__proto__"}

\* names that are array indices come first in the property order of an
\* object, by value
ArrayIndexValue == [x \in {"7"} |-> 7]

IsArrayIndex(name) == name \in DOMAIN ArrayIndexValue

HasOwn(o, author) == \E i \in 1..Len(o) : o[i].author = author

OwnOf(o, author) == o[CHOOSE i \in 1..Len(o) : o[i].author = author]

\* !authorChanges[author]
Falsy(o, author) == ~HasOwn(o, author) /\ author \notin ObjectPrototypeKeys

\* if (!authorChanges[author]) authorChanges[author] = {insertions: 0, ...}
EnsureAuthor(o, author) ==
    IF Falsy(o, author)
    THEN Append(o, [author |-> author, insertions |-> 0, deletions |-> 0,
                    commits |-> 0, totalFilesModified |-> 0])
    ELSE o

\* authorChanges[author].<field> += ...: the fields of an own property are
\* updated; without one the object found is a member of Object.prototype,
\* the fields are set on that member, and authorChanges stays as it is
UpdateAuthor(o, author, ins, del, cnt, nfiles) ==
    [i \in 1..Len(o) |->
        IF o[i].author = author
        THEN [o[i] EXCEPT !.insertions = @ + ins, !.deletions = @ + del,
                          !.commits = @ + cnt, !.totalFilesModified = @ + nfiles]
        ELSE o[i]]

\* the loop over fileData: lines 295-307
RECURSIVE SumCommits(_, _)
SumCommits(o, commitData) ==
    IF commitData = <<>> THEN o
    ELSE LET commit == Head(commitData)
         IN  SumCommits(UpdateAuthor(EnsureAuthor(o, commit.author), commit.author,
                                     commit.diff.insertions, commit.diff.deletions, 0, 0),
                        Tail(commitData))

RECURSIVE SumFiles(_, _)
SumFiles(o, t) ==
    IF t = <<>> THEN o ELSE SumFiles(SumCommits(o, Head(t).entries), Tail(t))

\* the loop over commits.all: lines 310-316
RECURSIVE CountCommits(_, _)
CountCommits(o, all) ==
    IF all = <<>> THEN o
    ELSE LET commit == Head(all)
         IN  CountCommits(UpdateAuthor(EnsureAuthor(o, commit.author_name), commit.author_name,
                                       0, 0, 1,
                                       IF commit.diff.defined THEN Len(commit.diff.files) ELSE 0),
                          Tail(all))

RECURSIVE InsertByValue(_, _)
InsertByValue(sorted, name) ==
    IF sorted = <<>> THEN <<name>>
    ELSE IF ArrayIndexValue[name] < ArrayIndexValue[Head(sorted)]
         THEN <<name>> \o sorted
         ELSE <<Head(sorted)>> \o InsertByValue(Tail(sorted), name)

RECURSIVE SortByValue(_)
SortByValue(names) ==
    IF names = <<>> THEN <<>>
    ELSE InsertByValue(SortByValue(SubSeq(names, 1, Len(names) - 1)), names[Len(names)])

\* Object.keys(authorChanges): array indices in ascending order, then the
\* other names in the order in which they were created
ObjectKeys(o) ==
    LET names == [i \in 1..Len(o) |-> o[i].author]
    IN  SortByValue(SelectSeq(names, IsArrayIndex))
            \o SelectSeq(names, LAMBDA n : ~IsArrayIndex(n))

\* (a, b) => authorChanges[b].insertions - authorChanges[a].insertions
Comparator(o, a, b) == OwnOf(o, b).insertions - OwnOf(o, a).insertions

\* name goes behind every element the comparator does not put behind it
RECURSIVE InsertSorted(_, _, _)
InsertSorted(o, sorted, name) ==
    IF sorted = <<>> THEN <<name>>
    ELSE IF Comparator(o, Head(sorted), name) > 0
         THEN <<name>> \o sorted
         ELSE <<Head(sorted)>> \o InsertSorted(o, Tail(sorted), name)

\* Array.prototype.sort, which is stable
RECURSIVE StableSort(_, _)
StableSort(o, names) ==
    IF names = <<>> THEN <<>>
    ELSE InsertSorted(o, StableSort(o, SubSeq(names, 1, Len(names) - 1)), names[Len(names)])

\* both loops that fill authorChanges
TopSum ==
    /\ pc = "sum"
    /\ authorChanges' = CountCommits(SumFiles(<<>>, fileData), commits)
    /\ pc' = "sort"
    /\ UNCHANGED <<commits, fileData, authors, dataVars, simVars, limit, sortedAuthors, ranking>>

\* const sortedAuthors = Object.keys(authorChanges).sort(...)
TopSort ==
    /\ pc = "sort"
    /\ sortedAuthors' = StableSort(authorChanges, ObjectKeys(authorChanges))
    /\ pc' = "print"
    /\ UNCHANGED <<commits, fileData, authors, dataVars, simVars, limit, authorChanges, ranking>>

\* one iteration of the output loop; the average is printed from
\* totalFilesModified and commits
TopPrint ==
    /\ pc = "print"
    /\ Len(ranking) < limit
    /\ Len(ranking) < Len(sortedAuthors)
    /\ ranking' = Append(ranking, OwnOf(authorChanges, sortedAuthors[Len(ranking) + 1]))
    /\ UNCHANGED <<pc, commits, fileData, authors, dataVars, simVars, limit, authorChanges,
                   sortedAuthors>>

TopEnd ==
    /\ pc = "print"
    /\ ~(Len(ranking) < limit /\ Len(ranking) < Len(sortedAuthors))
    /\ pc' = "done"
    /\ UNCHANGED <<commits, fileData, authors, dataVars, simVars, topVars>>

-----------------------------------------------------------------------------
(* The specification of analyzeTopContributors: every log of at most       *)
(* MaxCommits commits of three developers, each without statistics, with a *)
(* binary file or with a text file, and every limit up to MaxLimit         *)

MaxLimit == 3

\* authorChanges is read before it is written (index.ts lines 301, 312), so
\* the names include an array index and a member of Object.prototype
TopDevelopers == {"7", "ann", "constructor"}

TopFiles == {"a", "b"}

TopInsertions == {0, 1}

BinaryDiff(file) ==
    [file |-> file, binary |-> TRUE, insertions |-> 0, deletions |-> 0, changes |-> 0]

TopCommits ==
    {Commit(d, <<TextDiff(PlainKey(f), n, 0)>>) :
        d \in TopDevelopers, f \in TopFiles, n \in TopInsertions}
        \cup {Commit(d, <<BinaryDiff(PlainKey("a"))>>) : d \in TopDevelopers}
        \cup {[author_name |-> d, diff |-> NoDiff] : d \in TopDevelopers}

TopInit ==
    /\ commits \in SeqsUpTo(TopCommits, MaxCommits)
    /\ fileData = ProcessCommitsFileData(commits, Len(commits))
    /\ authors = ProcessCommitsAuthors(commits, Len(commits))
    /\ limit \in 1..MaxLimit
    /\ pc = "sum"
    /\ authorChanges = <<>>
    /\ sortedAuthors = <<>>
    /\ ranking = <<>>
    /\ threshold = [num |-> 0, den |-> 1]
    /\ developerData = <<>>
    /\ ai = 0
    /\ bi = 0
    /\ output = <<>>
    /\ computed = <<>>
    /\ renames = <<>>
    /\ pending = <<>>
    /\ idx = 0
    /\ modified = FALSE
    /\ pass = 0
    /\ relocs = {}
    /\ skips = {}
    /\ moved = <<>>
    /\ passStart = <<>>

TopNext == TopSum \/ TopSort \/ TopPrint \/ TopEnd

TopSpec == TopInit /\ [][TopNext]_vars

-----------------------------------------------------------------------------
(* Properties of analyzeTopContributors *)

Developers == {commits[i].author_name : i \in 1..Len(commits)}

\* the insertions of the entries the resolved table holds for developer d
InsertionsOf(d) ==
    SumOfSeq([i \in 1..Len(AllEntries(fileData)) |->
                 IF AllEntries(fileData)[i].author = d
                 THEN AllEntries(fileData)[i].diff.insertions ELSE 0])

\* the authors of the entries of the table, then those of the commits, in
\* the order in which the two loops meet them
RECURSIVE FirstSeen(_, _)
FirstSeen(seen, names) ==
    IF names = <<>> THEN seen
    ELSE FirstSeen(IF Head(names) \in Range(seen) THEN seen ELSE Append(seen, Head(names)),
                   Tail(names))

FirstSeenOrder ==
    FirstSeen(<<>>, [i \in 1..Len(AllEntries(fileData)) |-> AllEntries(fileData)[i].author]
                        \o [i \in 1..Len(commits) |-> commits[i].author_name])

PositionIn(s, x) == CHOOSE i \in 1..Len(s) : s[i] = x

\* C9: analyzeTopContributors reports min(N, number of developers)
\* developers in non-increasing order of their insertions, no developer left
\* out has more insertions than a reported one, and developers with equal
\* insertions appear in the order in which they were first seen.
C9_Ranking ==
    pc = "done" =>
        /\ Len(ranking) = Min(limit, Cardinality(Developers))
        /\ \A i \in 1..Len(ranking) :
              /\ ranking[i].author \in Developers
              /\ ranking[i].insertions = InsertionsOf(ranking[i].author)
        /\ \A i \in 1..Len(ranking), j \in 1..Len(ranking) :
              i < j =>
                /\ ranking[i].author # ranking[j].author
                /\ ranking[i].insertions >= ranking[j].insertions
                /\ ranking[i].insertions = ranking[j].insertions
                      => PositionIn(FirstSeenOrder, ranking[i].author)
                            < PositionIn(FirstSeenOrder, ranking[j].author)
        /\ \A d \in Developers :
              (\A i \in 1..Len(ranking) : ranking[i].author # d)
                 => \A i \in 1..Len(ranking) : InsertionsOf(d) <= ranking[i].insertions

-----------------------------------------------------------------------------
(* Properties of processData *)

InputTable == ProcessCommitsFileData(commits, Len(commits))

EdgeOf(file) == [from |-> RenameFrom(file), to |-> RenameTo(file)]

RenameKeys(t) == SelectSeq(Keys(t), IsRename)

\* the rename edges processData detects, in the order it discovers them
DiscoveredEdges == [i \in 1..Len(RenameKeys(InputTable)) |-> EdgeOf(RenameKeys(InputTable)[i])]

DetectedEdges == Range(DiscoveredEdges)

Edge(p, q) == [from |-> PlainKey(p), to |-> PlainKey(q)]

\* the entries the input files under the path p, under the path q or under
\* any rename-annotated key
StartedUnder(p, q) ==
    {e \in Range(AllEntries(InputTable)) :
        e.diff.file \in {PlainKey(p), PlainKey(q)} \/ IsRename(e.diff.file)}

CountIn(s, e) == Cardinality({i \in 1..Len(s) : s[i] = e})

BagOfSeq(s) == [e \in Range(s) |-> CountIn(s, e)]

\* C1: when exactly the chain A->B, B->C is detected and the input files
\* entries under A, then once processData has returned neither A nor B is a
\* key and every entry that started under A, under B or under a
\* rename-annotated key is filed under C, whatever the discovery order.
C1_ChainResolution ==
    pc = "done" =>
        LET detected == DetectedEdges
        IN  \A A \in Names, B \in Names, C \in Names :
                (/\ Cardinality({A, B, C}) = 3
                 /\ detected = {Edge(A, B), Edge(B, C)}
                 /\ HasKey(InputTable, PlainKey(A)))
                => /\ ~HasKey(fileData, PlainKey(A))
                   /\ ~HasKey(fileData, PlainKey(B))
                   /\ HasKey(fileData, PlainKey(C))
                   /\ StartedUnder(A, B) \subseteq Range(Entries(fileData, PlainKey(C)))

\* C2: after every step of the extraction loop and of the relocation loop,
\* and after processData has returned, the bag of history entries over all
\* keys is the bag of the input, and every entry is filed exactly once.
C2_Conservation ==
    /\ BagOfSeq(AllEntries(fileData)) = BagOfSeq(AllEntries(InputTable))
    /\ \A e \in Range(AllEntries(InputTable)) : CountIn(AllEntries(fileData), e) = 1

C2_Witness ==
    /\ pc = "done"
    /\ Len(moved) >= 2
    /\ relocs # {}
    /\ Len(fileData) >= 2

\* C3: the relocation loop reaches a pass that relocates nothing, so
\* processData returns.  The loop is deterministic in fileData: were it to
\* end a pass that relocated something with the table the pass began with,
\* every later pass would repeat it and no pass would relocate nothing.
C3_Terminates ==
    ~(pc = "resolve" /\ idx > Len(renames) /\ modified /\ fileData = passStart)

FirstReloc == CHOOSE r \in relocs : \A x \in relocs : r.pass < x.pass \/ (r.pass = x.pass /\ r.edge <= x.edge)

OtherOf(A, B, k) == IF k = PlainKey(A) THEN PlainKey(B) ELSE PlainKey(A)

\* C4: when exactly A->B and B->A are detected and the input files entries
\* under A, the loop never starts a third pass, and once processData has
\* returned every entry of the two paths and of the rename-annotated keys is
\* filed under the target of the edge that relocated first, which is A or B,
\* and the other of the two paths is no key of the result.
C4_CycleSafety ==
    (pass > 2 \/ pc = "done") =>
        LET detected == DetectedEdges
        IN  \A A \in Names, B \in Names :
                (/\ A # B
                 /\ detected = {Edge(A, B), Edge(B, A)}
                 /\ HasKey(InputTable, PlainKey(A)))
                => /\ pass <= 2
                   /\ relocs # {}
                   /\ LET holder == renames[FirstReloc.edge].to
                      IN  /\ holder \in {PlainKey(A), PlainKey(B)}
                          /\ HasKey(fileData, holder)
                          /\ ~HasKey(fileData, OtherOf(A, B, holder))
                          /\ Range(Entries(fileData, holder)) = StartedUnder(A, B)

C4_Witness ==
    /\ pc = "done"
    /\ \E A \in Names, B \in Names :
          /\ A # B
          /\ DiscoveredEdges = <<Edge(A, B), Edge(B, A)>>
          /\ HasKey(InputTable, PlainKey(A))
          /\ HasKey(fileData, PlainKey(A))
          /\ Len(Entries(fileData, PlainKey(A))) = 3

ProperEdge(i) == renames[i].from # renames[i].to

\* C10: during the relocation loop a path whose entry list is empty or absent
\* stays so; an edge with from # to relocates in the first pass or never (so
\* at most once), an edge skipped in one pass relocates in no later pass, and
\* when every edge has from # to the loop never starts a third pass.
C10_OnePassSuffices ==
    /\ [](/\ \A r \in relocs : ProperEdge(r.edge) => r.pass = 1
          /\ \A r \in relocs, k \in skips : r.edge = k.edge => r.pass <= k.pass
          /\ (pc # "extract" /\ \A i \in 1..Len(renames) : ProperEdge(i)) => pass <= 2)
    /\ [][(pc = "resolve" /\ pc' = "resolve") =>
            \A p \in Names : EmptyOrAbsent(fileData, PlainKey(p))
                                => EmptyOrAbsent(fileData', PlainKey(p))]_vars

C10_Witness ==
    /\ pc = "done"
    /\ pass = 2
    /\ Len(renames) >= 2
    /\ \A i \in 1..Len(renames) : ProperEdge(i)
    /\ \E r \in relocs, k \in skips : r.edge # k.edge

====
